---- MODULE Spec2Model ----
(***************************************************************************)
(* State-machine model of the narrative engine and emotion model of        *)
(* simulate_to_survive (core/scene_manager.py, core/emotion_system.py,      *)
(* core/game.py, data/scenes.py).                                           *)
(*                                                                          *)
(* Conventions                                                              *)
(*  - Python's None is the string "None".                                   *)
(*  - The five display names of EmotionType are Chinese strings in the      *)
(*    source; the module language is ASCII, so they are written in pinyin:  *)
(*    zhinian, fennu, yayi, qinggan, juexin.                                *)
(*  - Emotion values are Python floats once decay has been applied         *)
(*    (int + int - float).  They are kept here in fixed point, in units of  *)
(*    1/Scale, and time.time() is kept in whole minutes, so that            *)
(*    decay_rate * minutes is an integer number of units.                   *)
(***************************************************************************)
EXTENDS Integers, Sequences, FiniteSets, TLC

None == "None"

(***************************************************************************)
(* data/scenes.py: the dataclasses and the authored catalog                 *)
(***************************************************************************)
Effect(name, delta) == [name |-> name, delta |-> delta]

Choice(id, emotion_effects, next) ==
  [id |-> id, emotion_effects |-> emotion_effects, next_scene |-> next]

SceneEvent(id, choices) == [id |-> id, choices |-> choices]

Scene(id, events) == [id |-> id, events |-> events]

CH0_PHASE_01 ==
  Scene("CH0_PHASE_01", <<
    SceneEvent("CH0_E01", <<
        Choice("CH0_CHOICE_01A", <<Effect("zhinian", 10)>>, None),
        Choice("CH0_CHOICE_01B", <<Effect("fennu", 15)>>, None),
        Choice("CH0_CHOICE_01C", <<Effect("yayi", 12)>>, None)>>),
    SceneEvent("CH0_E02", <<
        Choice("CH0_CHOICE_02A", <<Effect("yayi", 8), Effect("zhinian", 5)>>, None),
        Choice("CH0_CHOICE_02B", <<Effect("fennu", 12), Effect("zhinian", 8)>>, None),
        Choice("CH0_CHOICE_02C", <<Effect("qinggan", 10), Effect("yayi", 5)>>, None)>>),
    SceneEvent("CH0_E03", <<
        Choice("CH0_CHOICE_03A", <<Effect("zhinian", 15), Effect("juexin", 10)>>, None),
        Choice("CH0_CHOICE_03B", <<Effect("yayi", 10), Effect("zhinian", 8)>>, None),
        Choice("CH0_CHOICE_03C", <<Effect("qinggan", 15), Effect("juexin", 5)>>, None)>>)>>)

CH0_PHASE_02 ==
  Scene("CH0_PHASE_02", <<
    SceneEvent("CH0_E04", <<
        Choice("CH0_CHOICE_04A", <<Effect("yayi", 10)>>, None),
        Choice("CH0_CHOICE_04B", <<Effect("fennu", 8), Effect("juexin", 5)>>, None),
        Choice("CH0_CHOICE_04C", <<Effect("zhinian", 12)>>, None)>>),
    SceneEvent("CH0_E05", <<
        Choice("CH0_CHOICE_05A", <<Effect("yayi", 5), Effect("zhinian", 10)>>, None),
        Choice("CH0_CHOICE_05B", <<Effect("fennu", 15), Effect("yayi", 8)>>, None),
        Choice("CH0_CHOICE_05C", <<Effect("juexin", 20), Effect("zhinian", 12)>>, None)>>),
    SceneEvent("CH0_E06", <<
        Choice("CH0_CHOICE_06A", <<Effect("fennu", 20), Effect("zhinian", 15)>>, None),
        Choice("CH0_CHOICE_06B", <<Effect("qinggan", 15), Effect("yayi", 10)>>, None),
        Choice("CH0_CHOICE_06C", <<Effect("juexin", 25), Effect("zhinian", 20)>>, None)>>)>>)

CH0_PHASE_03 ==
  Scene("CH0_PHASE_03", <<
    SceneEvent("CH0_E07", <<
        Choice("CH0_CHOICE_07A", <<Effect("qinggan", 20)>>, None),
        Choice("CH0_CHOICE_07B", <<Effect("yayi", 15), Effect("zhinian", 10)>>, None),
        Choice("CH0_CHOICE_07C", <<Effect("qinggan", 10), Effect("zhinian", 8)>>, None)>>),
    SceneEvent("CH0_E08", <<
        Choice("CH0_CHOICE_08A", <<Effect("qinggan", 25), Effect("juexin", 15)>>, None),
        Choice("CH0_CHOICE_08B", <<Effect("fennu", 20), Effect("zhinian", 15)>>, None),
        Choice("CH0_CHOICE_08C", <<Effect("juexin", 30), Effect("zhinian", 20)>>, None)>>),
    SceneEvent("CH0_E09", <<
        Choice("CH0_CHOICE_09A", <<Effect("juexin", 35), Effect("zhinian", 25)>>, None),
        Choice("CH0_CHOICE_09B", <<Effect("yayi", 20), Effect("zhinian", 15)>>, None),
        Choice("CH0_CHOICE_09C", <<Effect("zhinian", 30), Effect("juexin", 20)>>, None)>>)>>)

CH0_PHASE_04 ==
  Scene("CH0_PHASE_04", <<
    SceneEvent("CH0_E10", <<
        Choice("CH0_CHOICE_10A", <<Effect("zhinian", 30), Effect("fennu", 15)>>, None),
        Choice("CH0_CHOICE_10B", <<Effect("fennu", 25), Effect("zhinian", 20)>>, None),
        Choice("CH0_CHOICE_10C", <<Effect("yayi", 20), Effect("zhinian", 25)>>, None)>>),
    SceneEvent("CH0_E11", <<
        Choice("CH0_CHOICE_11A", <<Effect("zhinian", 35)>>, None),
        Choice("CH0_CHOICE_11B", <<Effect("zhinian", 30)>>, None),
        Choice("CH0_CHOICE_11C", <<Effect("zhinian", 40), Effect("juexin", 25)>>, None)>>),
    SceneEvent("CH0_E12", <<
        Choice("CH0_CHOICE_12A", <<>>, "CH1_PHASE_01"),
        Choice("CH0_CHOICE_12B", <<>>, "CH1_PHASE_01"),
        Choice("CH0_CHOICE_12C", <<>>, "CH1_PHASE_01")>>)>>)

CH1_PHASE_01 ==
  Scene("CH1_PHASE_01", <<
    SceneEvent("CH1_E01", <<
        Choice("CH1_CHOICE_01A", <<Effect("juexin", 20)>>, None),
        Choice("CH1_CHOICE_01B", <<Effect("yayi", 10)>>, None)>>),
    SceneEvent("CH1_E02", <<
        Choice("CH1_CHOICE_02A", <<Effect("juexin", 15)>>, None)>>)>>)

AuthoredScenes ==
  [id \in {"CH0_PHASE_01", "CH0_PHASE_02", "CH0_PHASE_03", "CH0_PHASE_04",
           "CH1_PHASE_01"} |->
     CASE id = "CH0_PHASE_01" -> CH0_PHASE_01
       [] id = "CH0_PHASE_02" -> CH0_PHASE_02
       [] id = "CH0_PHASE_03" -> CH0_PHASE_03
       [] id = "CH0_PHASE_04" -> CH0_PHASE_04
       [] id = "CH1_PHASE_01" -> CH1_PHASE_01]

(***************************************************************************)
(* A second catalog of the same dataclasses.  The engine reads whatever    *)
(* get_scene returns, and the authored content has no choice that carries  *)
(* both emotion_effects and next_scene, none without emotion_effects       *)
(* before the last event of CH0_PHASE_04, no next_scene that names a       *)
(* missing scene and no scene without events; this content has one of      *)
(* each, under the scene ids the SceneManager registers.                   *)
(***************************************************************************)
ProbeScenes ==
  [id \in {"CH0_PHASE_01", "CH0_PHASE_03", "CH1_PHASE_01"} |->
     CASE id = "CH0_PHASE_01" ->
            Scene("CH0_PHASE_01", <<
              SceneEvent("PR_E01", <<
                Choice("PR_CHOICE_01A", <<>>, None),
                Choice("PR_CHOICE_01B", <<>>, "NOWHERE"),
                Choice("PR_CHOICE_01C", <<Effect("juexin", 20)>>, "CH1_PHASE_01")>>),
              SceneEvent("PR_E02", <<
                Choice("PR_CHOICE_02A", <<>>, None),
                Choice("PR_CHOICE_02B",
                       <<Effect("happiness", 5), Effect("zhinian", 5)>>, None)>>)>>)
       [] id = "CH0_PHASE_03" -> Scene("CH0_PHASE_03", <<>>)
       [] id = "CH1_PHASE_01" ->
            Scene("CH1_PHASE_01", <<
              SceneEvent("PR_E03", <<
                Choice("PR_CHOICE_03A", <<>>, "CH0_PHASE_01")>>)>>)]

Contents == {"authored", "probe"}

(***************************************************************************)
(* core/emotion_system.py: EmotionType, EmotionValue defaults               *)
(***************************************************************************)
EmotionTypes == <<"OBSESSION", "ANGER", "DEPRESSION", "AFFECTION", "DETERMINATION">>

EmotionType == {EmotionTypes[i] : i \in 1..Len(EmotionTypes)}

EmotionTypeValue(t) ==
  CASE t = "OBSESSION" -> "zhinian"
    [] t = "ANGER" -> "fennu"
    [] t = "DEPRESSION" -> "yayi"
    [] t = "AFFECTION" -> "qinggan"
    [] t = "DETERMINATION" -> "juexin"

\* the methods class EmotionSystem defines
EmotionSystemMethods ==
  {"update_emotion", "set_emotion", "get_emotion", "get_emotion_percentage",
   "get_all_emotions", "get_emotion_summary", "get_dominant_emotion",
   "get_emotion_stability", "check_emotion_threshold", "get_emotion_effects",
   "reset_emotions", "save_emotions", "load_emotions"}

\* config.game.emotion_decay_rate = 0.1 per minute, as a fraction
emotion_decay_rate_num == 1

emotion_decay_rate_den == 10

\* fixed point: one unit of an emotion value is Scale model units, so that
\* the decay of one minute is a whole number of model units
Scale == emotion_decay_rate_den

max_value == 100

min_value == 0

\* the decay rate in model units per minute
emotion_decay_rate == (emotion_decay_rate_num * Scale) \div emotion_decay_rate_den

(***************************************************************************)
(* core/scene_manager.py: the scene registry                                *)
(***************************************************************************)
GameSceneKeys ==
  {"CH0_PHASE_01", "CH0_PHASE_02", "CH0_PHASE_03", "CH0_PHASE_04", "CH1_PHASE_01"}

MenuSceneKeys == {"main_menu", "settings"}

SceneKeys == MenuSceneKeys \cup GameSceneKeys

\* SceneManager._initialize_scenes: the object registered under each key
NewScene(key) ==
  [kind |-> IF key \in MenuSceneKeys THEN "MainMenuScene" ELSE "GameScene",
   \* the settings placeholder is a MainMenuScene, whose scene_id is "main_menu"
   scene_id |-> IF key \in MenuSceneKeys THEN "main_menu" ELSE key,
   is_active |-> FALSE,
   next_scene |-> None,
   text_complete |-> FALSE,
   \* "None", "Scene" (the catalog's Scene for scene_id) or "fallback" (the dict)
   scene_data |-> IF key \in MenuSceneKeys THEN "dict" ELSE None,
   current_event_index |-> 0,
   \* the id of the SceneEvent object, or None
   current_event |-> None]

VARIABLES
  content,         \* which catalog data/scenes.py holds
  running,         \* Game.running / the process is alive
  scene_manager,   \* Game.scene_manager: scenes, current_scene, scene_states
  emotion_system,  \* Game.emotion_system: emotions, emotion_history
  current_scene,   \* Game.current_scene
  save_file,       \* save_game.json
  decay_rate,      \* EmotionValue.decay_rate of every axis, in model units per minute
  saved_emotions,  \* the dict save_emotions() returned to its caller
  now,             \* time.time(), in minutes
  error,           \* the exception the last operation raised, or None
  last,            \* the last operation and its arguments
  steps            \* number of operations so far

vars ==
  <<content, running, scene_manager, emotion_system, current_scene, save_file,
    decay_rate, saved_emotions, now, error, last, steps>>

\* fault: the catalog without its CH1_PHASE_01 entry
SCENES_without_chapter_one ==
  IF content = "authored"
  THEN [id \in DOMAIN AuthoredScenes \ {"CH1_PHASE_01"} |-> AuthoredScenes[id]]
  ELSE ProbeScenes

SCENES == IF content = "authored" THEN AuthoredScenes ELSE ProbeScenes

\* get_scene answers with SCENES.get(scene_id); HasScene is "the answer is not None"
HasScene(scene_id) == scene_id \in DOMAIN SCENES

get_scene(scene_id) == SCENES[scene_id]

(***************************************************************************)
(* core/scene_manager.py: Scene, MainMenuScene, GameScene                   *)
(* A scene object is a record; each method is an operator from the object   *)
(* (and its arguments) to the object after the call.                        *)
(***************************************************************************)
set_text(s) == [s EXCEPT !.text_complete = FALSE]

\* text_progress is not kept: one update either completes the text or not,
\* depending on the frame time and the length of the text (completes)
update_text(s, completes) ==
  IF ~s.text_complete /\ completes THEN [s EXCEPT !.text_complete = TRUE] ELSE s

\* on_text_complete is a pass in every scene class
advance_text(s) == IF ~s.text_complete THEN [s EXCEPT !.text_complete = TRUE] ELSE s

transition_to(s, scene_id) == [s EXCEPT !.next_scene = scene_id]

\* fault: load_scene_data without its self.current_event_index = 0
load_scene_data_keeps_index(s) ==
  IF HasScene(s.scene_id) /\ Len(get_scene(s.scene_id).events) > 0
  THEN set_text([s EXCEPT !.scene_data = "Scene",
                          !.current_event = get_scene(s.scene_id).events[1].id])
  ELSE set_text([s EXCEPT !.scene_data = "fallback"])

load_scene_data(s) ==
  IF HasScene(s.scene_id) /\ Len(get_scene(s.scene_id).events) > 0
  THEN set_text([s EXCEPT !.scene_data = "Scene",
                          !.current_event_index = 0,
                          !.current_event = get_scene(s.scene_id).events[1].id])
  ELSE set_text([s EXCEPT !.scene_data = "fallback"])

activate(s) ==
  IF s.kind = "MainMenuScene"
  THEN set_text([s EXCEPT !.is_active = TRUE])
  ELSE load_scene_data([s EXCEPT !.is_active = TRUE])

\* fault: deactivate without its self.is_active = False
deactivate_keeps_active(s) == s

deactivate(s) == [s EXCEPT !.is_active = FALSE]

\* the events of the Scene a game scene holds in scene_data
EventsOf(s) == get_scene(s.scene_id).events

\* the choices of the SceneEvent object current_event refers to
CurrentChoices(s) ==
  LET evs == EventsOf(s)
  IN evs[CHOOSE j \in 1..Len(evs) : evs[j].id = s.current_event].choices

\* fault: the wrap test written with <= instead of <
IndexInRange_inclusive(index, n) == index <= n

\* events[index] raises IndexError outside the list: 0 <= index < n is in range
IndexInRange(index, n) == index < n

move_to_next_event(s) ==
  IF s.scene_data = None
  THEN [scene |-> s, error |-> None]
  ELSE IF s.scene_data = "fallback"
  THEN \* the fallback dict has no attribute events
       [scene |-> s, error |-> "AttributeError"]
  ELSE LET n == Len(EventsOf(s))
           s1 == [s EXCEPT !.current_event_index = @ + 1]
           i == s1.current_event_index
       IN IF IndexInRange(i, n)
          THEN IF i + 1 \in 1..n
               THEN [scene |-> set_text([s1 EXCEPT !.current_event = EventsOf(s)[i + 1].id]),
                     error |-> None]
               ELSE [scene |-> s1, error |-> "IndexError"]
          ELSE [scene |-> set_text([s1 EXCEPT !.current_event_index = 0,
                                              !.current_event = EventsOf(s)[1].id]),
                error |-> None]

(***************************************************************************)
(* core/game.py: Game.update_emotion_by_name                                *)
(***************************************************************************)
\* Looks update_emotion_by_name up on the EmotionSystem object.
update_emotion_by_name(es, emotion_name, delta) ==
  CASE "update_emotion_by_name" \notin EmotionSystemMethods ->
         [emotion_system |-> es, error |-> "AttributeError"]

\* the loop over choice.emotion_effects.items(); an exception ends it
RECURSIVE ApplyEffects(_, _)
ApplyEffects(es, effects) ==
  IF effects = <<>>
  THEN [emotion_system |-> es, error |-> None]
  ELSE LET r == update_emotion_by_name(es, Head(effects).name, Head(effects).delta)
       IN IF r.error # None THEN r ELSE ApplyEffects(r.emotion_system, Tail(effects))

\* fault: the range test written with > instead of >=
ChoiceOutOfRange_off_by_one(choice_index, n) == choice_index > n

\* line 385: choice_index >= len(self.current_event.choices)
ChoiceOutOfRange(choice_index, n) == choice_index >= n

\* a Python list index, as a position 1..n; negative indices count from the end
ListPosition(index, n) == IF index >= 0 THEN index + 1 ELSE n + index + 1

on_choice_selected(s, es, choice_index) ==
  LET quiet == [scene |-> s, emotion_system |-> es, error |-> None] IN
  IF s.current_event = None THEN quiet
  ELSE LET choices == CurrentChoices(s)
           n == Len(choices)
           p == ListPosition(choice_index, n)
       IN IF ChoiceOutOfRange(choice_index, n) THEN quiet
          ELSE IF p \notin 1..n
          THEN [scene |-> s, emotion_system |-> es, error |-> "IndexError"]
          ELSE LET choice == choices[p]
                   fx == ApplyEffects(es, choice.emotion_effects)
               IN IF fx.error # None
                  THEN [scene |-> s, emotion_system |-> fx.emotion_system,
                        error |-> fx.error]
                  ELSE IF choice.next_scene # None
                  THEN [scene |-> transition_to(s, choice.next_scene),
                        emotion_system |-> fx.emotion_system, error |-> None]
                  ELSE LET m == move_to_next_event(s)
                       IN [scene |-> m.scene, emotion_system |-> fx.emotion_system,
                           error |-> m.error]

Keys == {"K_RETURN", "K_SPACE", "K_1", "K_2", "K_3"}

\* Scene.handle_keydown
Scene_handle_keydown(s, key) ==
  IF key \in {"K_SPACE", "K_RETURN"} THEN advance_text(s) ELSE s

\* MainMenuScene.handle_keydown; K_3 ends the process (pygame.quit, sys.exit)
MainMenuScene_handle_keydown(s, key) ==
  LET s1 == Scene_handle_keydown(s, key) IN
  IF ~s1.text_complete THEN [scene |-> s1, error |-> None]
  ELSE IF key \in {"K_1", "K_RETURN"}
  THEN [scene |-> transition_to(s1, "CH0_PHASE_01"), error |-> None]
  ELSE IF key = "K_2"
  THEN [scene |-> transition_to(s1, "settings"), error |-> None]
  ELSE IF key = "K_3"
  THEN [scene |-> s1, error |-> "SystemExit"]
  ELSE [scene |-> s1, error |-> None]

KeyChoiceIndex(key) ==
  CASE key = "K_1" -> 0 [] key = "K_2" -> 1 [] key = "K_3" -> 2

\* fault: handle_keydown without its self.text_complete test
GameScene_handle_keydown_ignores_text(s, es, key) ==
  IF s.current_event # None /\ CurrentChoices(s) # <<>>
     /\ key \in {"K_1", "K_2", "K_3"}
  THEN on_choice_selected(Scene_handle_keydown(s, key), es, KeyChoiceIndex(key))
  ELSE [scene |-> Scene_handle_keydown(s, key), emotion_system |-> es, error |-> None]

\* GameScene.handle_keydown
GameScene_handle_keydown(s, es, key) ==
  LET s1 == Scene_handle_keydown(s, key) IN
  IF s1.text_complete /\ s1.current_event # None /\ CurrentChoices(s1) # <<>>
     /\ key \in {"K_1", "K_2", "K_3"}
  THEN on_choice_selected(s1, es, KeyChoiceIndex(key))
  ELSE [scene |-> s1, emotion_system |-> es, error |-> None]

\* GameScene.handle_mouse_click(pos).  hit is the choice rectangle pos lies
\* in (rectangle i is drawn for choice i), or -1 for a position in none;
\* Scene.handle_mouse_click finds no button, self.buttons stays empty.
GameScene_handle_mouse_click(s, es, hit) ==
  IF s.text_complete /\ s.current_event # None /\ CurrentChoices(s) # <<>>
     /\ hit \in 0..(Len(CurrentChoices(s)) - 1)
  THEN [calls |-> 1] @@ on_choice_selected(s, es, hit)
  ELSE [scene |-> s, emotion_system |-> es, error |-> None, calls |-> 0]

\* Game._handle_events for one MOUSEBUTTONDOWN on a game scene: first
\* Game._handle_mouse_click -> SceneManager.handle_mouse_click, then
\* SceneManager.handle_event -> Scene.handle_event -> handle_mouse_click
\* the result r of a later handler, counting the calls made before it
AfterCalls(calls, r) == [r EXCEPT !.calls = calls + r.calls]

\* the second handler, entered unless the first (result r1) raised
SceneManager_handle_event_mouse(r1, hit) ==
  IF r1.error # None THEN r1
  ELSE AfterCalls(r1.calls,
                  GameScene_handle_mouse_click(r1.scene, r1.emotion_system, hit))

Game_handle_mouse_event(s, es, hit) ==
  SceneManager_handle_event_mouse(GameScene_handle_mouse_click(s, es, hit), hit)

(***************************************************************************)
(* core/scene_manager.py: SceneManager                                      *)
(* sm = [scenes, current_scene, scene_states]; current_scene is the key of  *)
(* the registered object it refers to, or None.                             *)
(***************************************************************************)
\* fault: no fallback for an id that is not registered
ResolveSceneId_no_fallback(scene_id) == scene_id

\* lines 460-462: an id that is not registered is replaced by "main_menu"
ResolveSceneId(scene_id) == IF scene_id \notin SceneKeys THEN "main_menu" ELSE scene_id

load_scene(sm, scene_id) ==
  LET key == ResolveSceneId(scene_id)
      sm1 == IF sm.current_scene # None
             THEN [sm EXCEPT !.scenes[sm.current_scene] = deactivate(@)]
             ELSE sm
  IN IF key \notin SceneKeys
     THEN \* self.scenes[scene_id]
          [scene_manager |-> sm1, error |-> "KeyError"]
     ELSE [scene_manager |-> [sm1 EXCEPT !.scenes[key] = activate(@),
                                         !.current_scene = key],
           error |-> None]

\* SceneManager.update: the scene's update (text animation), then the transition
SceneManager_update(sm, completes) ==
  IF sm.current_scene = None
  THEN [scene_manager |-> sm, error |-> None]
  ELSE LET k == sm.current_scene
           sm1 == [sm EXCEPT !.scenes[k] = update_text(@, completes)]
           next == sm1.scenes[k].next_scene
       IN IF next # None
          THEN load_scene([sm1 EXCEPT !.scenes[k].next_scene = None], next)
          ELSE [scene_manager |-> sm1, error |-> None]

get_next_scene(sm) ==
  IF sm.current_scene # None THEN sm.scenes[sm.current_scene].next_scene ELSE None

\* scene_states[scene_id] = scene_data, as a set of (scene_id, scene_data) entries
SceneManager_save_scene_state(sm) ==
  IF sm.current_scene = None THEN sm
  ELSE LET s == sm.scenes[sm.current_scene]
       IN [sm EXCEPT !.scene_states =
             {e \in @ : e.scene_id # s.scene_id}
               \cup {[scene_id |-> s.scene_id, scene_data |-> s.scene_data]}]

(***************************************************************************)
(* core/emotion_system.py: EmotionValue, EmotionSystem                      *)
(* es = [emotions, emotion_history]                                         *)
(***************************************************************************)
\* fault: the clamp without its max(self.min_value, ...)
Clamp_upper_only(v) == IF v > max_value * Scale THEN max_value * Scale ELSE v

Clamp(v) ==
  IF v < min_value * Scale THEN min_value * Scale
  ELSE IF v > max_value * Scale THEN max_value * Scale ELSE v

\* fault: the decay is clamped on its own before delta is added
EmotionValue_update_clamps_twice(e, delta, current_time) ==
  LET time_diff == current_time - e.last_update
      decay_amount == decay_rate * time_diff
  IN [value |-> Clamp(Clamp(e.value - decay_amount) + delta * Scale),
      last_update |-> current_time]

\* fault: the decay is added
EmotionValue_update_decay_added(e, delta, current_time) ==
  LET time_diff == current_time - e.last_update
      decay_amount == decay_rate * time_diff
  IN [value |-> Clamp(e.value + delta * Scale + decay_amount),
      last_update |-> current_time]

\* EmotionValue.update: delta and the result in model units, times in minutes;
\* self.decay_rate is the rate EmotionSystem.__init__ took from the config
EmotionValue_update(e, delta, current_time) ==
  LET time_diff == current_time - e.last_update
      decay_amount == decay_rate * time_diff
  IN [value |-> Clamp(e.value + delta * Scale - decay_amount),
      last_update |-> current_time]

EmotionValue_set_value(e, value, current_time) ==
  [value |-> Clamp(value * Scale), last_update |-> current_time]

\* lines 168-176; the last HistoryWindow entries of the history
HistoryWindow == 100

\* fault: the window is taken from the start of the history
FirstEntries(h, n) == IF Len(h) <= n THEN h ELSE SubSeq(h, 1, n)

LastEntries(h, n) == IF Len(h) <= n THEN h ELSE SubSeq(h, Len(h) - n + 1, Len(h))

\* a dict with the keys of keys; the other fields are read only for those
save_emotions(es) ==
  [keys |-> {"emotions", "history"},
   emotions |->
     [name \in {EmotionTypeValue(t) : t \in EmotionType} |->
        LET t == CHOOSE t \in EmotionType : EmotionTypeValue(t) = name
        IN [value |-> es.emotions[t].value,
            last_update |-> es.emotions[t].last_update]],
   history |-> LastEntries(es.emotion_history, HistoryWindow)]

\* the empty dict {}
EmptyDict == [keys |-> {}, emotions |-> <<>>, history |-> <<>>]

\* fault: load_emotions restores the value and leaves last_update as it is
load_emotions_value_only(es, data) ==
  [emotions |->
     [t \in EmotionType |->
        IF "emotions" \in data.keys /\ EmotionTypeValue(t) \in DOMAIN data.emotions
        THEN [value |-> data.emotions[EmotionTypeValue(t)].value,
              last_update |-> es.emotions[t].last_update]
        ELSE es.emotions[t]],
   emotion_history |->
     IF "history" \in data.keys THEN data.history ELSE es.emotion_history]

\* fault: an axis the data does not name is set back to its initial value
load_emotions_resets_absent(es, data) ==
  [emotions |->
     [t \in EmotionType |->
        IF "emotions" \in data.keys /\ EmotionTypeValue(t) \in DOMAIN data.emotions
        THEN [value |-> data.emotions[EmotionTypeValue(t)].value,
              last_update |-> data.emotions[EmotionTypeValue(t)].last_update]
        ELSE [value |-> 0, last_update |-> es.emotions[t].last_update]],
   emotion_history |->
     IF "history" \in data.keys THEN data.history ELSE es.emotion_history]

\* data.emotions: display name -> [value, last_update]; a name that is no
\* EmotionType value matches nothing in the inner loop
load_emotions(es, data) ==
  [emotions |->
     [t \in EmotionType |->
        IF "emotions" \in data.keys /\ EmotionTypeValue(t) \in DOMAIN data.emotions
        THEN [value |-> data.emotions[EmotionTypeValue(t)].value,
              last_update |-> data.emotions[EmotionTypeValue(t)].last_update]
        ELSE es.emotions[t]],
   emotion_history |->
     IF "history" \in data.keys THEN data.history ELSE es.emotion_history]

(***************************************************************************)
(* core/game.py: Game                                                       *)
(* g = [scene_manager, emotion_system, current_scene, save_file]            *)
(***************************************************************************)
\* Game._transition_to_scene
transition_to_scene(g, scene_id) ==
  LET r == load_scene(SceneManager_save_scene_state(g.scene_manager), scene_id)
  IN [game |-> [g EXCEPT !.current_scene = scene_id,
                         !.scene_manager = r.scene_manager],
      error |-> r.error]

\* Game._check_scene_transitions
check_scene_transitions(g) ==
  LET next_scene == get_next_scene(g.scene_manager)
  IN IF next_scene # None /\ next_scene # g.current_scene
     THEN transition_to_scene(g, next_scene)
     ELSE [game |-> g, error |-> None]

\* Game._update: scene_manager.update(), then _check_scene_transitions()
Game_update(g, completes) ==
  LET r == SceneManager_update(g.scene_manager, completes)
      g1 == [g EXCEPT !.scene_manager = r.scene_manager]
  IN IF r.error # None THEN [game |-> g1, error |-> r.error]
     ELSE check_scene_transitions(g1)

\* save_game.json: absent, cut short by a failed dump, or the complete save_data
NoSaveFile ==
  [exists |-> FALSE, complete |-> FALSE, current_scene |-> None,
   emotions |-> EmptyDict, scene_state |-> {}]

\* Game.save_game.  json.dump cannot encode a Scene dataclass held in
\* scene_state: it raises TypeError and leaves the part written so far behind.
save_game(g) ==
  IF \E e \in g.scene_manager.scene_states : e.scene_data = "Scene"
  THEN [game |-> [g EXCEPT !.save_file = [NoSaveFile EXCEPT !.exists = TRUE]],
        error |-> "TypeError"]
  ELSE [game |-> [g EXCEPT !.save_file =
                    [exists |-> TRUE, complete |-> TRUE,
                     current_scene |-> g.current_scene,
                     emotions |-> save_emotions(g.emotion_system),
                     scene_state |-> g.scene_manager.scene_states]],
        error |-> None]

\* fault: load_game restores the saved fields and never calls load_scene
load_game_without_load_scene(g) ==
  IF ~g.save_file.exists THEN [game |-> g, error |-> None]
  ELSE IF ~g.save_file.complete THEN [game |-> g, error |-> "JSONDecodeError"]
  ELSE [game |-> [g EXCEPT !.current_scene = g.save_file.current_scene,
                           !.emotion_system = load_emotions(@, g.save_file.emotions),
                           !.scene_manager.scene_states = g.save_file.scene_state],
        error |-> None]

\* Game.load_game
load_game(g) ==
  IF ~g.save_file.exists THEN [game |-> g, error |-> None]
  ELSE IF ~g.save_file.complete THEN [game |-> g, error |-> "JSONDecodeError"]
  ELSE LET d == g.save_file
           g1 == [g EXCEPT !.current_scene = d.current_scene,
                           !.emotion_system = load_emotions(@, d.emotions),
                           !.scene_manager.scene_states = d.scene_state]
           r == load_scene(g1.scene_manager, g1.current_scene)
       IN [game |-> [g1 EXCEPT !.scene_manager = r.scene_manager], error |-> r.error]

\* fault: update_emotion without its "if emotion_type in self.emotions" test
\* for the history entry
update_emotion_logs_unknown(es, emotion_type, delta, current_time) ==
  IF emotion_type \notin EmotionType
  THEN [es EXCEPT !.emotion_history =
          Append(@, [emotion |-> emotion_type, old_value |-> 0, new_value |-> 0,
                     delta |-> delta * Scale, timestamp |-> current_time])]
  ELSE LET old == es.emotions[emotion_type]
           new == EmotionValue_update(old, delta, current_time)
       IN [emotions |-> [es.emotions EXCEPT ![emotion_type] = new],
           emotion_history |->
             Append(es.emotion_history,
                    [emotion |-> EmotionTypeValue(emotion_type),
                     old_value |-> old.value,
                     new_value |-> new.value,
                     delta |-> delta * Scale,
                     timestamp |-> current_time])]

\* fault: update_emotion that also applies the decay to the other axes
update_emotion_decays_all(es, emotion_type, delta, current_time) ==
  IF emotion_type \notin EmotionType THEN es
  ELSE LET old == es.emotions[emotion_type]
           new == EmotionValue_update(old, delta, current_time)
       IN [emotions |->
             [t \in EmotionType |->
                IF t = emotion_type THEN new
                ELSE EmotionValue_update(es.emotions[t], 0, current_time)],
           emotion_history |->
             Append(es.emotion_history,
                    [emotion |-> EmotionTypeValue(emotion_type),
                     old_value |-> old.value,
                     new_value |-> new.value,
                     delta |-> delta * Scale,
                     timestamp |-> current_time])]

\* EmotionSystem.update_emotion; an argument that is no key of emotions is ignored
update_emotion(es, emotion_type, delta, current_time) ==
  IF emotion_type \notin EmotionType THEN es
  ELSE LET old == es.emotions[emotion_type]
           new == EmotionValue_update(old, delta, current_time)
       IN [emotions |-> [es.emotions EXCEPT ![emotion_type] = new],
           emotion_history |->
             Append(es.emotion_history,
                    [emotion |-> EmotionTypeValue(emotion_type),
                     old_value |-> old.value,
                     new_value |-> new.value,
                     delta |-> delta * Scale,
                     timestamp |-> current_time])]

\* EmotionSystem.set_emotion; the entry records the argument, not the stored value
set_emotion(es, emotion_type, value, current_time) ==
  IF emotion_type \notin EmotionType THEN es
  ELSE LET old == es.emotions[emotion_type]
       IN [emotions |-> [es.emotions EXCEPT
                           ![emotion_type] = EmotionValue_set_value(old, value, current_time)],
           emotion_history |->
             Append(es.emotion_history,
                    [emotion |-> EmotionTypeValue(emotion_type),
                     old_value |-> old.value,
                     new_value |-> value * Scale,
                     delta |-> value * Scale - old.value,
                     timestamp |-> current_time])]

\* fault: a later item with an equal value replaces the maximum found so far
RECURSIVE max_by_value_last(_, _, _)
max_by_value_last(emotions, i, best) ==
  IF i > Len(EmotionTypes) THEN best
  ELSE max_by_value_last(emotions, i + 1,
         IF emotions[EmotionTypes[i]].value >= emotions[best].value
         THEN EmotionTypes[i] ELSE best)

\* max(self.emotions.items(), key=lambda x: x[1].value): the items come in
\* the order the types were inserted (the order of EmotionType), and max
\* keeps the first of several items with the greatest key
RECURSIVE max_by_value(_, _, _)
max_by_value(emotions, i, best) ==
  IF i > Len(EmotionTypes) THEN best
  ELSE max_by_value(emotions, i + 1,
         IF emotions[EmotionTypes[i]].value > emotions[best].value
         THEN EmotionTypes[i] ELSE best)

\* EmotionSystem.get_dominant_emotion
get_dominant_emotion(es) ==
  LET dominant == max_by_value(es.emotions, 2, EmotionTypes[1])
  IN IF es.emotions[dominant].value > 0 THEN EmotionTypeValue(dominant) ELSE None

\* fault: reset_emotions starts the history anew
reset_emotions_clears_history(es, current_time) ==
  [emotions |->
     [t \in EmotionType |-> EmotionValue_set_value(es.emotions[t], 0, current_time)],
   emotion_history |-> <<>>]

reset_emotions(es, current_time) ==
  [es EXCEPT !.emotions =
     [t \in EmotionType |-> EmotionValue_set_value(es.emotions[t], 0, current_time)]]

(***************************************************************************)
(* Bounds and inputs                                                        *)
(***************************************************************************)
\* operations in one run of the engine
MaxSteps == 5

\* operations in one run of the emotion model
MaxEmotionSteps == 4

\* the clock stops here
MaxTime == 120

\* scene ids a caller asks for: every registered key and one that is not
SceneIdInputs == SceneKeys \cup {"NOWHERE"}

\* choice indices a caller passes: one negative, 0..2, and 3 (no event has 4 choices)
ChoiceIndexInputs == -1..3

\* update_emotion / set_emotion arguments: the first and the last member of
\* EmotionType (every member runs the same code) and a string that is none
EmotionTypeInputs == {"OBSESSION", "DETERMINATION", "happiness"}

DeltaInputs == {-5, 10, 150}

ValueInputs == {-5, 40, 150}

\* minutes between two calls; the wall clock may also step back
ClockSteps == {-1, 1, 60}

(***************************************************************************)
(* The state after Game.__init__                                            *)
(***************************************************************************)
NoOp == [op |-> "__init__", key |-> None, index |-> 0, calls |-> 0,
         emotions |-> [t \in EmotionType |-> [value |-> 0, last_update |-> 0]]]

\* everything Game.__init__ builds; save_game.json is a file it finds
InitObjects ==
  /\ content \in Contents
  /\ running = TRUE
  /\ scene_manager = [scenes |-> [k \in SceneKeys |-> NewScene(k)],
                      current_scene |-> None,
                      scene_states |-> {}]
  /\ emotion_system = [emotions |-> [t \in EmotionType |-> [value |-> 0, last_update |-> 0]],
                       emotion_history |-> <<>>]
  /\ current_scene = "main_menu"
  /\ saved_emotions = EmptyDict
  /\ now = 0
  /\ error = None
  /\ last = NoOp
  /\ steps = 0

\* a first start: no save_game.json yet, the configuration is the default
Init ==
  /\ InitObjects
  /\ save_file = NoSaveFile
  /\ decay_rate = emotion_decay_rate

\* current_scene values of a save_game.json left by an earlier run: a scene
\* of this build and one this build does not register
SavedSceneInputs == {"CH1_PHASE_01", "NOWHERE"}

\* a start that finds the save_game.json of an earlier run (saved with all
\* emotions at their initial value and no scene state)
InitSaved ==
  /\ InitObjects
  /\ decay_rate = emotion_decay_rate
  /\ \E id \in SavedSceneInputs :
       save_file = [exists |-> TRUE, complete |-> TRUE, current_scene |-> id,
                    emotions |->
                      save_emotions(
                        [emotions |-> [t \in EmotionType |->
                                         [value |-> 0, last_update |-> 0]],
                         emotion_history |-> <<>>]),
                    scene_state |-> {}]

Game == [scene_manager |-> scene_manager, emotion_system |-> emotion_system,
         current_scene |-> current_scene, save_file |-> save_file]

\* the scene object the scene manager has active
Current == scene_manager.scenes[scene_manager.current_scene]

\* calls: how often the operation called on_choice_selected (mouse clicks)
Op(op, key, index) ==
  [op |-> op, key |-> key, index |-> index, calls |-> 0,
   emotions |-> emotion_system.emotions]

\* The state after an operation of the engine that left g and raised err.
\* fatal: the caller is Game.run, where any exception ends the process; a
\* caller that catches (test_game.py) goes on.  SystemExit always ends it.
Return(g, err, fatal, op) ==
  /\ scene_manager' = g.scene_manager
  /\ emotion_system' = g.emotion_system
  /\ current_scene' = g.current_scene
  /\ save_file' = g.save_file
  /\ error' = err
  /\ running' = (err # "SystemExit" /\ (fatal => err = None))
  /\ last' = op
  /\ steps' = steps + 1
  /\ UNCHANGED <<content, decay_rate, saved_emotions, now>>

(***************************************************************************)
(* Operations of the engine                                                 *)
(***************************************************************************)
\* Game.run: the initial load_scene(self.current_scene)
Run(fatal) ==
  /\ running /\ steps < MaxSteps
  /\ last.op = "__init__"
  /\ LET r == load_scene(scene_manager, current_scene)
     IN Return([Game EXCEPT !.scene_manager = r.scene_manager], r.error, fatal,
               Op("run", current_scene, 0))

\* a direct SceneManager.load_scene(scene_id)
LoadScene(scene_id) ==
  /\ running /\ steps < MaxSteps
  /\ LET r == load_scene(scene_manager, scene_id)
     IN Return([Game EXCEPT !.scene_manager = r.scene_manager], r.error, FALSE,
               Op("load_scene", scene_id, 0))

\* Game._handle_events for one KEYDOWN event of a choice or text key:
\* Game._handle_keydown ignores these keys, the current scene handles them
KeyDown(key, fatal) ==
  /\ running /\ steps < MaxSteps
  /\ scene_manager.current_scene # None
  /\ LET k == scene_manager.current_scene
         r == IF Current.kind = "MainMenuScene"
              THEN [emotion_system |-> emotion_system] @@
                   MainMenuScene_handle_keydown(Current, key)
              ELSE GameScene_handle_keydown(Current, emotion_system, key)
     IN Return([Game EXCEPT !.scene_manager.scenes[k] = r.scene,
                            !.emotion_system = r.emotion_system],
               r.error, fatal, Op("keydown", key, 0))

\* positions of a click: inside the rectangle of choice 0, 1 or 2, or outside all
MouseHitInputs == -1..2

\* the state after the handlers of a click left r
MouseReturn(r, hit, fatal) ==
  Return([Game EXCEPT !.scene_manager.scenes[scene_manager.current_scene] = r.scene,
                      !.emotion_system = r.emotion_system],
         r.error, fatal,
         [Op("mouse_click", None, hit) EXCEPT !.calls = r.calls])

\* Game._handle_events for one MOUSEBUTTONDOWN event; a menu scene has
\* Scene.handle_mouse_click only, which finds no button
MouseClick(hit, fatal) ==
  /\ running /\ steps < MaxSteps
  /\ scene_manager.current_scene # None
  /\ MouseReturn(IF Current.kind = "MainMenuScene"
                 THEN [scene |-> Current, emotion_system |-> emotion_system,
                       error |-> None, calls |-> 0]
                 ELSE Game_handle_mouse_event(Current, emotion_system, hit),
                 hit, fatal)

\* a direct GameScene.on_choice_selected(choice_index) on the active scene
ChoiceSelected(choice_index) ==
  /\ running /\ steps < MaxSteps
  /\ scene_manager.current_scene \in GameSceneKeys
  /\ LET k == scene_manager.current_scene
         r == on_choice_selected(Current, emotion_system, choice_index)
     IN Return([Game EXCEPT !.scene_manager.scenes[k] = r.scene,
                            !.emotion_system = r.emotion_system],
               r.error, FALSE, Op("on_choice_selected", None, choice_index))

\* a direct GameScene.move_to_next_event() on the active scene
MoveToNextEvent ==
  /\ running /\ steps < MaxSteps
  /\ scene_manager.current_scene \in GameSceneKeys
  /\ LET k == scene_manager.current_scene
         r == move_to_next_event(Current)
     IN Return([Game EXCEPT !.scene_manager.scenes[k] = r.scene], r.error, FALSE,
               Op("move_to_next_event", None, 0))

\* a direct SceneManager.update(): one tick; last.key is the transition it found
Update(completes) ==
  /\ running /\ steps < MaxSteps
  /\ LET r == SceneManager_update(scene_manager, completes)
     IN Return([Game EXCEPT !.scene_manager = r.scene_manager], r.error, FALSE,
               Op("update", get_next_scene(scene_manager), 0))

\* Game._update(): one frame
GameUpdate(completes, fatal) ==
  /\ running /\ steps < MaxSteps
  /\ LET r == Game_update(Game, completes)
     IN Return(r.game, r.error, fatal, Op("_update", None, 0))

SaveGame(fatal) ==
  /\ running /\ steps < MaxSteps
  /\ LET r == save_game(Game)
     IN Return(r.game, r.error, fatal, Op("save_game", None, 0))

LoadGame(fatal) ==
  /\ running /\ steps < MaxSteps
  /\ LET r == load_game(Game)
     IN Return(r.game, r.error, fatal, Op("load_game", None, 0))

(***************************************************************************)
(* Operations of the emotion model                                          *)
(***************************************************************************)
EmotionReturn(es, op) ==
  /\ emotion_system' = es
  /\ last' = op
  /\ steps' = steps + 1
  /\ error' = None
  /\ UNCHANGED <<content, running, scene_manager, current_scene, save_file,
                 decay_rate, now>>

\* Game.update_emotion(emotion_type, delta) at time.time() = now
UpdateEmotion(emotion_type, delta) ==
  /\ steps < MaxEmotionSteps
  /\ EmotionReturn(update_emotion(emotion_system, emotion_type, delta, now),
                   Op("update_emotion", emotion_type, delta))
  /\ UNCHANGED saved_emotions

SetEmotion(emotion_type, value) ==
  /\ steps < MaxEmotionSteps
  /\ EmotionReturn(set_emotion(emotion_system, emotion_type, value, now),
                   Op("set_emotion", emotion_type, value))
  /\ UNCHANGED saved_emotions

ResetEmotions ==
  /\ steps < MaxEmotionSteps
  /\ EmotionReturn(reset_emotions(emotion_system, now), Op("reset_emotions", None, 0))
  /\ UNCHANGED saved_emotions

SaveEmotions ==
  /\ steps < MaxEmotionSteps
  /\ saved_emotions' = save_emotions(emotion_system)
  /\ EmotionReturn(emotion_system, Op("save_emotions", None, 0))

\* load_emotions on the dict an earlier save_emotions returned
LoadEmotions ==
  /\ steps < MaxEmotionSteps
  /\ EmotionReturn(load_emotions(emotion_system, saved_emotions),
                   Op("load_emotions", None, 0))
  /\ UNCHANGED saved_emotions

\* time passes between two calls
Clock(minutes) ==
  /\ steps < MaxEmotionSteps
  /\ now + minutes \in 0..MaxTime
  /\ now' = now + minutes
  /\ steps' = steps + 1
  /\ UNCHANGED <<content, running, scene_manager, emotion_system, current_scene,
                 save_file, decay_rate, saved_emotions, error, last>>

NextEmotion ==
  \/ \E t \in EmotionTypeInputs, d \in DeltaInputs : UpdateEmotion(t, d)
  \/ \E t \in EmotionTypeInputs, v \in ValueInputs : SetEmotion(t, v)
  \/ ResetEmotions
  \/ SaveEmotions
  \/ LoadEmotions
  \/ \E m \in ClockSteps : Clock(m)

\* the emotion model is the same under either content: one is enough
InitEmotion ==
  /\ Init
  /\ content = "authored"

SpecEmotion == InitEmotion /\ [][NextEmotion]_vars

\* Dicts a save file hands to load_emotions.
\* two axes only, one of them under a name that is no display name; no history
PartialData ==
  [keys |-> {"emotions"},
   emotions |-> ("zhinian" :> [value |-> 40 * Scale, last_update |-> 7])
                  @@ ("happiness" :> [value |-> 5 * Scale, last_update |-> 7]),
   history |-> <<>>]

\* values outside [min_value, max_value]
OutOfRangeData ==
  [keys |-> {"emotions", "history"},
   emotions |-> ("juexin" :> [value |-> 150 * Scale, last_update |-> 7])
                  @@ ("fennu" :> [value |-> (-5) * Scale, last_update |-> 7]),
   history |-> <<>>]

\* what save_emotions wrote at the end of a long session: all five axes and a
\* full window of history entries
LongSessionData ==
  [keys |-> {"emotions", "history"},
   emotions |-> [name \in {EmotionTypeValue(t) : t \in EmotionType} |->
                   [value |-> 0, last_update |-> 0]],
   history |-> [i \in 1..HistoryWindow |->
                  [emotion |-> "zhinian", old_value |-> 0, new_value |-> 0,
                   delta |-> 0, timestamp |-> i - HistoryWindow]]]

PersistedInputs == {EmptyDict, PartialData, OutOfRangeData, LongSessionData}

\* load_emotions(data) on the dict read from a save file
LoadPersisted(data) ==
  /\ steps < MaxEmotionSteps
  /\ saved_emotions' = data
  /\ EmotionReturn(load_emotions(emotion_system, data),
                   Op("load_emotions", "persisted", 0))

\* the emotion model between save files
NextPersisted ==
  \/ \E t \in EmotionTypeInputs, d \in DeltaInputs : UpdateEmotion(t, d)
  \/ SaveEmotions
  \/ \E data \in PersistedInputs : LoadPersisted(data)

SpecPersisted == InitEmotion /\ [][NextPersisted]_vars

\* emotion_decay_rate values of a configuration file, in model units per
\* minute: the default 0.1 and 6
DecayRateInputs == {emotion_decay_rate, 6 * Scale}

\* deltas of the decay runs: none, a rise and a fall
DecayDeltaInputs == {0, 10, -5}

\* a start with the decay rate Config.load_config read
InitDecay ==
  /\ InitObjects
  /\ content = "authored"
  /\ save_file = NoSaveFile
  /\ decay_rate \in DecayRateInputs

\* update_emotion calls with time passing between them
NextDecay ==
  \/ \E t \in EmotionTypeInputs, d \in DecayDeltaInputs : UpdateEmotion(t, d)
  \/ \E m \in ClockSteps : Clock(m)

SpecDecay == InitDecay /\ [][NextDecay]_vars

\* the engine as a library: every operation, called by a host that catches
Next ==
  \/ Run(FALSE)
  \/ \E id \in SceneIdInputs : LoadScene(id)
  \/ \E key \in Keys : KeyDown(key, FALSE)
  \/ \E hit \in MouseHitInputs : MouseClick(hit, FALSE)
  \/ \E i \in ChoiceIndexInputs : ChoiceSelected(i)
  \/ MoveToNextEvent
  \/ \E c \in BOOLEAN : Update(c)
  \/ \E c \in BOOLEAN : GameUpdate(c, FALSE)
  \/ SaveGame(FALSE)
  \/ LoadGame(FALSE)

Spec == Init /\ [][Next]_vars

\* the engine as a library, started next to a save file of an earlier run
SpecSaved == InitSaved /\ [][Next]_vars

\* the game as Game.run plays it, with save_game / load_game between frames
NextPlay ==
  \/ Run(TRUE)
  \/ \E key \in Keys : KeyDown(key, TRUE)
  \/ \E hit \in MouseHitInputs : MouseClick(hit, TRUE)
  \/ \E c \in BOOLEAN : GameUpdate(c, TRUE)
  \/ SaveGame(TRUE)
  \/ LoadGame(TRUE)

SpecPlay == Init /\ [][NextPlay]_vars

(***************************************************************************)
(* Properties                                                               *)
(***************************************************************************)
\* the type whose display name is name, or None
TypeOfName(name) ==
  IF \E t \in EmotionType : EmotionTypeValue(t) = name
  THEN CHOOSE t \in EmotionType : EmotionTypeValue(t) = name
  ELSE None

\* a game scene with a current event is active
InEvent ==
  /\ scene_manager.current_scene \in GameSceneKeys
  /\ Current.current_event # None

\* C1: a choice that carries emotion_effects on recognized axes and a
\* next_scene, applied by on_choice_selected and followed by one
\* SceneManager.update, leaves every named axis at its value before the
\* choice plus the delta (clamped) and the next_scene target active at
\* event index 0.
C1_ChoiceThenTick ==
  [][(/\ last.op = "on_choice_selected"
      /\ last'.op = "update"
      /\ InEvent
      /\ last.index \in 0..(Len(CurrentChoices(Current)) - 1)
      /\ LET c == CurrentChoices(Current)[last.index + 1]
         IN /\ c.emotion_effects # <<>>
            /\ c.next_scene # None
            /\ \A i \in 1..Len(c.emotion_effects) :
                 TypeOfName(c.emotion_effects[i].name) # None)
     => LET c == CurrentChoices(Current)[last.index + 1]
            target == ResolveSceneId(c.next_scene)
        IN /\ \A i \in 1..Len(c.emotion_effects) :
                LET t == TypeOfName(c.emotion_effects[i].name)
                IN emotion_system'.emotions[t].value =
                     Clamp(last.emotions[t].value + c.emotion_effects[i].delta * Scale)
           /\ scene_manager'.current_scene = target
           /\ scene_manager'.scenes[target].current_event_index = 0]_vars

\* C2: no operation of the core ends with an exception (leaving the game
\* from the menu, SystemExit, is the one intended way out).
C2_NoUncaughtError == error \in {None, "SystemExit"}

\* C3: in play, save_game followed at once by load_game leaves the active
\* scene and its current event index as they were at the save.
C3_CursorRoundTrip ==
  [][(/\ last.op = "save_game"
      /\ last'.op = "load_game"
      /\ scene_manager.current_scene # None)
     => /\ scene_manager'.current_scene = scene_manager.current_scene
        /\ Current'.current_event_index = Current.current_event_index]_vars

\* the saved dict holds, under every display name, the axis's value and last_update
SavedMatches ==
  /\ "emotions" \in saved_emotions.keys
  /\ \A t \in EmotionType :
       /\ EmotionTypeValue(t) \in DOMAIN saved_emotions.emotions
       /\ saved_emotions.emotions[EmotionTypeValue(t)].value
            = emotion_system.emotions[t].value
       /\ saved_emotions.emotions[EmotionTypeValue(t)].last_update
            = emotion_system.emotions[t].last_update

\* C4: save_emotions records the value and last_update of every axis, and
\* load_emotions of a saved dict gives every axis exactly the value and
\* last_update recorded at the save, whatever happened in between.
C4_EmotionRoundTrip ==
  last.op \in {"save_emotions", "load_emotions"} /\ saved_emotions.keys # {}
    => SavedMatches

\* a saved state with a raised axis was loaded at a later time
C4_Witness ==
  /\ last.op = "load_emotions"
  /\ saved_emotions.keys # {}
  /\ \E t \in EmotionType :
       /\ emotion_system.emotions[t].value > 0
       /\ emotion_system.emotions[t].last_update # now

\* C5: after every update_emotion / set_emotion, whatever the delta, the
\* value and the elapsed time, every axis has min_value <= value <= max_value.
C5_ValueInRange ==
  \A t \in EmotionType :
    /\ min_value * Scale <= emotion_system.emotions[t].value
    /\ emotion_system.emotions[t].value <= max_value * Scale

\* an update below the minimum was clamped while another axis sits at the maximum
C5_Witness ==
  /\ last.op = "update_emotion"
  /\ last.key \in EmotionType
  /\ last.index < 0
  /\ last.emotions[last.key].value + last.index * Scale < min_value * Scale
  /\ emotion_system.emotions[last.key].value = min_value * Scale
  /\ \E t \in EmotionType : emotion_system.emotions[t].value = max_value * Scale

\* C6: on_choice_selected of a choice without next_scene on the last event of
\* a scene sets current_event_index to 0 in the same scene, raises nothing
\* and leaves a current event.
C6_WrapOnLastEvent ==
  [][(/\ last'.op = "on_choice_selected"
      /\ InEvent
      /\ Current.scene_data = "Scene"
      /\ Current.current_event_index = Len(EventsOf(Current)) - 1
      /\ last'.index \in 0..(Len(CurrentChoices(Current)) - 1)
      /\ CurrentChoices(Current)[last'.index + 1].next_scene = None)
     => /\ scene_manager'.current_scene = scene_manager.current_scene
        /\ Current'.current_event_index = 0
        /\ Current'.current_event # None
        /\ error' = None]_vars

C8_UnknownSceneFallsBack ==
  (last.op \in {"load_scene", "update"} /\ last.key \notin SceneKeys \cup {None})
    => /\ error = None
       /\ scene_manager.current_scene = "main_menu"
       /\ scene_manager.scenes["main_menu"].is_active

\* a tick consumed a next_scene that names no registered scene
C8_Witness ==
  /\ last.op = "update"
  /\ last.key = "NOWHERE"
  /\ scene_manager.current_scene = "main_menu"

\* C9: a tick that finds a pending transition consumes it: afterwards no
\* scene has a pending transition, the active scene is the one the pending
\* id resolves to and its current_event_index is 0.
C9_TickConsumesPending ==
  (last.op = "update" /\ last.key # None)
    => /\ \A k \in SceneKeys : scene_manager.scenes[k].next_scene = None
       /\ scene_manager.current_scene = ResolveSceneId(last.key)
       /\ Current.current_event_index = 0

\* C10: while a game scene that holds a Scene with events is active,
\* 0 <= current_event_index < len(events).
C10_IndexInRange ==
  (scene_manager.current_scene \in GameSceneKeys /\ Current.scene_data = "Scene")
    => /\ 0 <= Current.current_event_index
       /\ Current.current_event_index < Len(EventsOf(Current))

\* move_to_next_event wrapped from the last event of a scene with several events
C10_Witness ==
  /\ last.op = "move_to_next_event"
  /\ scene_manager.current_scene \in GameSceneKeys
  /\ Current.scene_data = "Scene"
  /\ Len(EventsOf(Current)) > 1
  /\ Current.current_event_index = 0
  /\ error = None

\* C11: while the active game scene holds a pending transition that a choice
\* set and no tick has consumed, a further on_choice_selected or key press
\* changes neither the pending scene id, nor any emotion value, nor the
\* event index.
C11_PendingBlocksChoice ==
  [][(/\ last'.op \in {"on_choice_selected", "keydown"}
      /\ InEvent
      /\ Current.next_scene # None)
     => /\ Current'.next_scene = Current.next_scene
        /\ emotion_system'.emotions = emotion_system.emotions
        /\ Current'.current_event_index = Current.current_event_index]_vars

\* C12: on_choice_selected of a choice whose emotion_effects hold a key that
\* is no axis display name skips that effect only: every effect on a
\* recognized axis is applied, nothing is raised, and the choice's
\* transition is requested or, without next_scene, the next event is entered.
C12_UnknownAxisSkipped ==
  [][(/\ last'.op = "on_choice_selected"
      /\ InEvent
      /\ Current.scene_data = "Scene"
      /\ last'.index \in 0..(Len(CurrentChoices(Current)) - 1)
      /\ \E i \in 1..Len(CurrentChoices(Current)[last'.index + 1].emotion_effects) :
           TypeOfName(CurrentChoices(Current)[last'.index + 1].emotion_effects[i].name)
             = None)
     => LET c == CurrentChoices(Current)[last'.index + 1]
            n == Len(EventsOf(Current))
        IN /\ error' = None
           /\ \A i \in 1..Len(c.emotion_effects) :
                LET t == TypeOfName(c.emotion_effects[i].name)
                IN t # None =>
                     emotion_system'.emotions[t].value =
                       Clamp(emotion_system.emotions[t].value
                               + c.emotion_effects[i].delta * Scale)
           /\ IF c.next_scene # None
              THEN Current'.next_scene = c.next_scene
              ELSE Current'.current_event_index
                     = (Current.current_event_index + 1) % n]_vars

\* C13: load_game of a save whose current_scene names no registered scene
\* raises nothing and leaves main_menu the active scene, as load_scene does
\* for an unknown id.
C13_LoadGameFallsBack ==
  (/\ last.op = "load_game"
   /\ save_file.exists /\ save_file.complete
   /\ save_file.current_scene \notin SceneKeys)
    => /\ error = None
       /\ scene_manager.current_scene = "main_menu"
       /\ scene_manager.scenes["main_menu"].is_active
       /\ \A k \in SceneKeys \ {"main_menu"} : ~scene_manager.scenes[k].is_active

\* the save named an unregistered scene and a game scene was active before
\* the load
C13_Witness ==
  /\ last.op = "load_game"
  /\ save_file.exists /\ save_file.complete
  /\ save_file.current_scene = "NOWHERE"
  /\ current_scene = "NOWHERE"
  /\ scene_manager.current_scene = "main_menu"
  /\ \E k \in GameSceneKeys : scene_manager.scenes[k].scene_data # None

\* C14: in the catalog data/scenes.py defines, every next_scene a choice of
\* any event of any scene carries is the id of a scene get_scene finds.
C14_CatalogIntegrity ==
  content = "authored" =>
    \A id \in DOMAIN SCENES :
      \A i \in 1..Len(get_scene(id).events) :
        \A j \in 1..Len(get_scene(id).events[i].choices) :
          LET c == get_scene(id).events[i].choices[j]
          IN c.next_scene # None => HasScene(c.next_scene)

\* the scene whose last event carries the catalog's next_scene values was
\* loaded from the catalog, and the scene they name is in it
C14_Witness ==
  /\ content = "authored"
  /\ scene_manager.current_scene = "CH0_PHASE_04"
  /\ Current.scene_data = "Scene"
  /\ \E i \in 1..Len(EventsOf(Current)) :
       \E j \in 1..Len(EventsOf(Current)[i].choices) :
         /\ EventsOf(Current)[i].choices[j].next_scene # None
         /\ HasScene(EventsOf(Current)[i].choices[j].next_scene)

\* C15: after load_scene(id) for any id under which a scene is registered,
\* the scene_id of the active scene is id.
C15_LoadedSceneHasId ==
  (last.op = "load_scene" /\ last.key \in SceneKeys)
    => /\ scene_manager.current_scene # None
       /\ Current.scene_id = last.key

\* C16: get_dominant_emotion answers with the display name of the first
\* axis, in the order of EmotionType, whose value is the maximum of the five
\* values when that maximum is above 0, and with None otherwise.
C16_DominantIsFirstMaximum ==
  LET values == {emotion_system.emotions[t].value : t \in EmotionType}
      m == CHOOSE v \in values : \A w \in values : w <= v
      first == CHOOSE i \in 1..Len(EmotionTypes) :
                 /\ emotion_system.emotions[EmotionTypes[i]].value = m
                 /\ \A j \in 1..(i - 1) :
                      emotion_system.emotions[EmotionTypes[j]].value # m
  IN get_dominant_emotion(emotion_system)
       = IF m > 0 THEN EmotionTypeValue(EmotionTypes[first]) ELSE None

\* the first and the last axis share the greatest value, and the first is
\* the answer
C16_Witness ==
  /\ emotion_system.emotions["OBSESSION"].value > 0
  /\ emotion_system.emotions["DETERMINATION"].value
       = emotion_system.emotions["OBSESSION"].value
  /\ \A t \in EmotionType :
       emotion_system.emotions[t].value <= emotion_system.emotions["OBSESSION"].value
  /\ get_dominant_emotion(emotion_system) = "zhinian"

\* a step of the emotion model that is a call, not the clock
EmotionCall(op) == last'.op = op /\ steps' = steps + 1 /\ now' = now

\* C17: reset_emotions leaves every axis at value 0 and removes no history
\* entry: the history before the call is a prefix of the history after it.
C17_ResetZeroesKeepsHistory ==
  [][EmotionCall("reset_emotions")
     => /\ \A t \in EmotionType : emotion_system'.emotions[t].value = 0
        /\ Len(emotion_system'.emotion_history) >= Len(emotion_system.emotion_history)
        /\ SubSeq(emotion_system'.emotion_history, 1,
                  Len(emotion_system.emotion_history))
             = emotion_system.emotion_history]_vars

\* a reset brought a raised axis to 0 and the entries logged before are there
C17_Witness ==
  /\ last.op = "reset_emotions"
  /\ \E t \in EmotionType : last.emotions[t].value > 0
  /\ \A t \in EmotionType : emotion_system.emotions[t].value = 0
  /\ emotion_system.emotion_history # <<>>

\* C18: every call that writes axis values appends one history entry per
\* axis it writes: update_emotion and set_emotion of an axis append one entry
\* for that axis, reset_emotions appends one for each of the five.
C18_HistoryOnEveryMutation ==
  [][/\ (/\ \/ EmotionCall("update_emotion")
            \/ EmotionCall("set_emotion")
         /\ last'.key \in EmotionType)
        => /\ Len(emotion_system'.emotion_history)
                = Len(emotion_system.emotion_history) + 1
           /\ emotion_system'.emotion_history[Len(emotion_system'.emotion_history)].emotion
                = EmotionTypeValue(last'.key)
     /\ EmotionCall("reset_emotions")
        => Len(emotion_system'.emotion_history)
             = Len(emotion_system.emotion_history) + Cardinality(EmotionType)]_vars

\* C19: the history entry set_emotion(axis, v) appends has new_value equal
\* to the value stored for the axis after the call (v clamped) and delta
\* equal to that value minus the value before the call.
C19_SetEntryRecordsStored ==
  [][(EmotionCall("set_emotion") /\ last'.key \in EmotionType)
     => LET h == emotion_system'.emotion_history
            e == h[Len(h)]
        IN /\ Len(h) = Len(emotion_system.emotion_history) + 1
           /\ e.new_value = emotion_system'.emotions[last'.key].value
           /\ e.delta = emotion_system'.emotions[last'.key].value
                          - emotion_system.emotions[last'.key].value]_vars

\* C20: update_emotion with an argument that is no member of EmotionType
\* changes no value, no last_update and no history entry and raises nothing.
C20_UnknownAxisNoOp ==
  [][(EmotionCall("update_emotion") /\ last'.key \notin EmotionType)
     => /\ emotion_system' = emotion_system
        /\ error' = None]_vars

\* update_emotion("happiness", ...) was called on a system with a raised
\* axis and a history
C20_Witness ==
  /\ last.op = "update_emotion"
  /\ last.key = "happiness"
  /\ error = None
  /\ \E t \in EmotionType : emotion_system.emotions[t].value > 0
  /\ emotion_system.emotion_history # <<>>

\* C21: update_emotion(axis, delta) at time t leaves the axis at
\* old_value + delta - decay_rate * (minutes since last_update), brought into
\* [min_value, max_value] once, at the end, and sets last_update to t.
C21_UpdateFormula ==
  [][(EmotionCall("update_emotion") /\ last'.key \in EmotionType)
     => LET e == emotion_system.emotions[last'.key]
            raw == e.value + last'.index * Scale - decay_rate * (now - e.last_update)
        IN /\ emotion_system'.emotions[last'.key].value =
                IF raw < min_value * Scale THEN min_value * Scale
                ELSE IF raw > max_value * Scale THEN max_value * Scale
                ELSE raw
           /\ emotion_system'.emotions[last'.key].last_update = now]_vars

\* with decay rate 6 per minute an axis went from 0 to 10 by update(+10) and,
\* one minute later, to 4 by update(0)
C21_Witness ==
  /\ decay_rate = 6 * Scale
  /\ last.op = "update_emotion"
  /\ last.key \in EmotionType
  /\ last.index = 0
  /\ Len(emotion_system.emotion_history) = 2
  /\ emotion_system.emotion_history[1].old_value = 0
  /\ emotion_system.emotion_history[1].delta = 10 * Scale
  /\ emotion_system.emotion_history[1].new_value = 10 * Scale
  /\ emotion_system.emotion_history[2].emotion = EmotionTypeValue(last.key)
  /\ emotion_system.emotion_history[2].emotion = emotion_system.emotion_history[1].emotion
  /\ emotion_system.emotion_history[2].timestamp
       = emotion_system.emotion_history[1].timestamp + 1
  /\ emotion_system.emotions[last.key].value = 4 * Scale

\* minutes between last_update and an update
ElapsedInputs == {0, 1, 2, 60, 61}

\* C22: for every axis, starting value and delta, an update after a longer
\* time leaves a value no greater than the same update after a shorter time.
C22_DecayMonotone ==
  \A t \in EmotionType :
    \A d \in DecayDeltaInputs :
      \A e1, e2 \in ElapsedInputs :
        LET e == emotion_system.emotions[t]
        IN e1 <= e2 =>
             EmotionValue_update(e, d, e.last_update + e2).value
               <= EmotionValue_update(e, d, e.last_update + e1).value

\* an update(0) after some time left the axis lower than it was, and a
\* longer wait would leave it lower still
C22_Witness ==
  /\ last.op = "update_emotion"
  /\ last.key \in EmotionType
  /\ last.index = 0
  /\ emotion_system.emotions[last.key].value < last.emotions[last.key].value
  /\ LET e == emotion_system.emotions[last.key]
     IN EmotionValue_update(e, 0, e.last_update + 60).value
          < EmotionValue_update(e, 0, e.last_update + 1).value

\* C23: load_emotions of data that names an axis outside the five display
\* names raises nothing; every axis the data names takes the persisted value
\* and last_update, every axis it does not name keeps what it had.
C23_UnknownNamesSkipped ==
  [][(/\ EmotionCall("load_emotions")
      /\ "emotions" \in saved_emotions'.keys
      /\ \E name \in DOMAIN saved_emotions'.emotions : TypeOfName(name) = None)
     => /\ error' = None
        /\ \A t \in EmotionType :
             IF EmotionTypeValue(t) \in DOMAIN saved_emotions'.emotions
             THEN /\ emotion_system'.emotions[t].value
                       = saved_emotions'.emotions[EmotionTypeValue(t)].value
                  /\ emotion_system'.emotions[t].last_update
                       = saved_emotions'.emotions[EmotionTypeValue(t)].last_update
             ELSE emotion_system'.emotions[t] = emotion_system.emotions[t]]_vars

\* data with an unknown name was loaded: the axis it names has the persisted
\* value and a raised axis it does not name is still raised
C23_Witness ==
  /\ last.op = "load_emotions"
  /\ saved_emotions = PartialData
  /\ emotion_system.emotions["OBSESSION"] = PartialData.emotions["zhinian"]
  /\ emotion_system.emotions["DETERMINATION"].value > 0
  /\ error = None

\* C24: save_emotions returns, as history, the last min(n, 100) of the n
\* entries in memory, in their order, and leaves the history in memory as it is.
C24_SavedHistoryWindow ==
  [][EmotionCall("save_emotions")
     => LET h == emotion_system.emotion_history
            n == Len(h)
            m == IF n < HistoryWindow THEN n ELSE HistoryWindow
            saved == saved_emotions'.history
        IN /\ Len(saved) = m
           /\ \A i \in 1..m : saved[i] = h[n - m + i]
           /\ emotion_system' = emotion_system]_vars

\* more entries in memory than the window holds: the newest is the last one
\* saved and the oldest is not saved
C24_Witness ==
  /\ last.op = "save_emotions"
  /\ Len(emotion_system.emotion_history) > HistoryWindow
  /\ Len(saved_emotions.history) = HistoryWindow
  /\ saved_emotions.history[HistoryWindow]
       = emotion_system.emotion_history[Len(emotion_system.emotion_history)]
  /\ saved_emotions.history[1] # emotion_system.emotion_history[1]

\* C26: after load_emotions, whatever values the persisted data holds,
\* every axis has min_value <= value <= max_value.
C26_LoadedValueInRange ==
  last.op = "load_emotions" =>
    \A t \in EmotionType :
      /\ min_value * Scale <= emotion_system.emotions[t].value
      /\ emotion_system.emotions[t].value <= max_value * Scale

\* C25: with the text of the current event complete, the key k of 1..N (N the
\* number of its choices) applies the choice at position k - 1 of the event's
\* choice list: its effects on recognized axes, and its transition request
\* or the advance to the next event; any other key applies no choice.
C25_NumericKeySelectsPosition ==
  [][(/\ last'.op = "keydown"
      /\ InEvent
      /\ Current.scene_data = "Scene"
      /\ Current.text_complete)
     => LET choices == CurrentChoices(Current)
            k == CASE last'.key = "K_1" -> 1
                   [] last'.key = "K_2" -> 2
                   [] last'.key = "K_3" -> 3
                   [] OTHER -> 0
        IN IF k \in 1..Len(choices)
           THEN LET c == choices[k]
                IN /\ error' = None
                   /\ \A i \in 1..Len(c.emotion_effects) :
                        LET t == TypeOfName(c.emotion_effects[i].name)
                        IN t # None =>
                             emotion_system'.emotions[t].value =
                               Clamp(emotion_system.emotions[t].value
                                       + c.emotion_effects[i].delta * Scale)
                   /\ IF c.next_scene # None
                      THEN Current'.next_scene = c.next_scene
                      ELSE Current'.current_event_index
                             = (Current.current_event_index + 1)
                                 % Len(EventsOf(Current))
           ELSE /\ Current'.next_scene = Current.next_scene
                /\ Current'.current_event_index = Current.current_event_index
                /\ emotion_system' = emotion_system]_vars

\* C27: on_choice_selected with a negative index applies no choice: nothing
\* is raised and scene, event index, pending transition and emotion values
\* are unchanged.
C27_NegativeIndexRejected ==
  [][(/\ last'.op = "on_choice_selected"
      /\ InEvent
      /\ last'.index < 0)
     => /\ scene_manager' = scene_manager
        /\ emotion_system' = emotion_system
        /\ error' = None]_vars

\* C28: one MOUSEBUTTONDOWN event leads to at most one call of
\* on_choice_selected, whatever choice the click lands on.
C28_OneClickOneChoice == last.op = "mouse_click" => last.calls <= 1

\* C29: after every Game._update in play, Game.current_scene is the id of
\* the scene the scene manager has active.
C29_GameTracksActiveScene ==
  (last.op = "_update" /\ error = None /\ scene_manager.current_scene # None)
    => current_scene = scene_manager.current_scene

\* The scene ids the player's input can make pending while the scene
\* registered under key is active: the two menu targets on a menu scene, the
\* next_scene of any choice of any event on a game scene.
PlayTargets(key) ==
  IF key \in MenuSceneKeys THEN {"CH0_PHASE_01", "settings"}
  ELSE IF HasScene(key)
  THEN UNION {{get_scene(key).events[i].choices[j].next_scene :
                 j \in 1..Len(get_scene(key).events[i].choices)} :
              i \in 1..Len(get_scene(key).events)} \ {None}
  ELSE {}

\* The registry keys play can make active: main_menu, which Game.run loads,
\* and whatever a pending id of a scene already in the set resolves to.
RECURSIVE PlayClosure(_)
PlayClosure(keys) ==
  LET more == keys \cup {ResolveSceneId(id) : id \in UNION {PlayTargets(k) : k \in keys}}
  IN IF more = keys THEN keys ELSE PlayClosure(more)

ReachableByPlay == PlayClosure({"main_menu"})

\* play never leaves ReachableByPlay
PlayStaysInReachable ==
  scene_manager.current_scene \in ReachableByPlay \cup {None}

\* C30: every scene of the catalog can be made the active scene by player
\* inputs and ticks, starting from the main menu.
C30_EverySceneReachableByPlay ==
  content = "authored" => \A id \in DOMAIN SCENES : id \in ReachableByPlay

\* C31: while the text of the current event is not complete, a key 1-3 or a
\* mouse click applies no choice: event index, pending transition and
\* emotions stay as they are and nothing is raised; and after every step
\* that enters a scene or moves to another event the text is not complete.
C31_TextGatesChoices ==
  [][/\ (/\ \/ last'.op = "keydown" /\ last'.key \in {"K_1", "K_2", "K_3"}
            \/ last'.op = "mouse_click"
         /\ InEvent
         /\ ~Current.text_complete)
        => /\ Current'.current_event_index = Current.current_event_index
           /\ Current'.next_scene = Current.next_scene
           /\ ~Current'.text_complete
           /\ emotion_system' = emotion_system
           /\ error' = None
     /\ (/\ scene_manager'.current_scene # None
         /\ \/ scene_manager'.current_scene # scene_manager.current_scene
            \/ last'.op = "load_scene" /\ error' = None
            \/ last'.op = "update" /\ last'.key # None /\ error' = None
            \/ /\ last'.op = "move_to_next_event" /\ error' = None
               /\ Current.scene_data = "Scene" /\ EventsOf(Current) # <<>>
            \/ /\ scene_manager.current_scene # None
               /\ Current'.current_event_index # Current.current_event_index)
        => ~Current'.text_complete]_vars

\* the key 1 was pressed on an event with choices whose text was not complete
C31_Witness ==
  /\ last.op = "keydown"
  /\ last.key = "K_1"
  /\ InEvent
  /\ Current.scene_data = "Scene"
  /\ CurrentChoices(Current) # <<>>
  /\ ~Current.text_complete
  /\ error = None

\* C32: every active game scene whose catalog entry has events holds that
\* Scene in scene_data, an event index inside the event list, and in
\* current_event the event at position current_event_index of the list.
C32_CurrentEventAtIndex ==
  \A k \in GameSceneKeys :
    LET s == scene_manager.scenes[k]
    IN (/\ s.is_active
        /\ HasScene(s.scene_id)
        /\ Len(get_scene(s.scene_id).events) > 0)
       => /\ s.scene_data = "Scene"
          /\ s.current_event_index \in 0..(Len(EventsOf(s)) - 1)
          /\ s.current_event = EventsOf(s)[s.current_event_index + 1].id

\* the active game scene is back at its first event, having moved past its
\* last one
C32_Witness ==
  /\ InEvent
  /\ Current.is_active
  /\ Current.scene_data = "Scene"
  /\ last.op = "move_to_next_event"
  /\ Len(EventsOf(Current)) >= 2
  /\ Current.current_event_index = 0
  /\ Current.current_event = EventsOf(Current)[1].id
  /\ error = None

\* C33: update_emotion(axis, delta) and set_emotion(axis, v) leave the value
\* and the last_update of every axis other than the named one as they were.
C33_OnlyNamedAxisChanges ==
  [][(EmotionCall("update_emotion") \/ EmotionCall("set_emotion"))
     => \A t \in EmotionType :
          t # last'.key
            => emotion_system'.emotions[t] = emotion_system.emotions[t]]_vars

\* an axis was updated or set while another axis held a value last written
\* at an earlier time, which is still what that other axis holds
C33_Witness ==
  /\ last.op \in {"update_emotion", "set_emotion"}
  /\ last.key \in EmotionType
  /\ emotion_system.emotions[last.key] # last.emotions[last.key]
  /\ \E t \in EmotionType :
       /\ t # last.key
       /\ last.emotions[t].value > 0
       /\ last.emotions[t].last_update < now
       /\ emotion_system.emotions[t] = last.emotions[t]

\* the registered scene objects whose is_active is true
ActiveScenes == {k \in SceneKeys : scene_manager.scenes[k].is_active}

\* C34: before the first load_scene no registered scene is active; from then
\* on exactly one registered scene object is active and it is the scene
\* manager's current scene; a step that switches the current scene leaves the
\* previous scene inactive and the new one active.
C34_ExactlyOneActiveScene ==
  /\ [](IF scene_manager.current_scene = None
        THEN ActiveScenes = {}
        ELSE ActiveScenes = {scene_manager.current_scene})
  /\ [][(/\ scene_manager.current_scene # None
         /\ scene_manager'.current_scene # scene_manager.current_scene)
        => /\ ~scene_manager'.scenes[scene_manager.current_scene].is_active
           /\ scene_manager'.scenes[scene_manager'.current_scene].is_active]_vars

\* a tick switched from a game scene that had been entered to another scene:
\* the entered scene is inactive and the current one is the only active one
C34_Witness ==
  /\ last.op = "update"
  /\ last.key # None
  /\ scene_manager.current_scene # None
  /\ ActiveScenes = {scene_manager.current_scene}
  /\ \E k \in GameSceneKeys :
       /\ k # scene_manager.current_scene
       /\ scene_manager.scenes[k].scene_data # None
       /\ ~scene_manager.scenes[k].is_active
  /\ error = None
====
